---- MODULE Spec2Model ----
(***************************************************************************)
(* A model of bin/format_tutorial_for_paper.py: the script that turns a    *)
(* training tutorial (tutorial.md with YAML front matter) into an article  *)
(* for pandoc (article/article.md and article/references.bib).             *)
(*                                                                         *)
(* Text is modelled character by character: a Python str is a sequence of  *)
(* one-character strings, so that `in`, startswith, replace, slicing and   *)
(* the regular expressions of the script are computed as Python computes   *)
(* them.  The character "<VT>" stands for the vertical tab that the escape *)
(* \v of a Python string literal denotes.                                  *)
(***************************************************************************)
EXTENDS Integers, Sequences, FiniteSets

VARIABLES
    pc,                     \* position of the modelled call or run
    time, time_ret,         \* get_time: argument and returned value
    cite_in, cite_out, cite_once, cite_n,
                            \* the citation substitution applied cite_n times
    yaml_metadata, contributors, metadata,
                            \* extract_metadata: front matter, directory, result
    content, idx, do_not_add_next_lines, l_content, trace, zenodo_link,
    tuto_fp, form_content,  \* format_tuto_content: the loop and its result
    full_content, yaml_src, body_src,
                            \* format_tutorial: the lines read and their two parts
    tuto_dp, tutorial_md, tutorial_bib, contributors_yaml, article_dp, article_md,
    references_bib,         \* the directories and files the script reads and writes
    runs                    \* how many times the modelled operation has run

vars == <<pc, time, time_ret, cite_in, cite_out, cite_once, cite_n,
          yaml_metadata, contributors, metadata,
          content, idx, do_not_add_next_lines, l_content, trace, zenodo_link,
          tuto_fp, form_content,
          full_content, yaml_src, body_src,
          tuto_dp, tutorial_md, tutorial_bib, contributors_yaml, article_dp, article_md,
          references_bib, runs>>

timeVars == <<time, time_ret>>
citeVars == <<cite_in, cite_out, cite_once, cite_n>>
metaVars == <<yaml_metadata, contributors, metadata>>
contentVars == <<content, idx, do_not_add_next_lines, l_content, trace, zenodo_link,
                 tuto_fp, form_content>>
tutorialVars == <<full_content, yaml_src, body_src>>
fileVars == <<tuto_dp, tutorial_md, tutorial_bib, contributors_yaml, article_dp,
              article_md, references_bib, runs>>

(***************************************************************************)
(* Python values that are not text.                                        *)
(***************************************************************************)
\* Python's None, as a value that compares with text
None == <<"<None>">>

\* str(x) as the % operator formats it: None prints as the word None
Str(x) == IF x = None THEN <<"N","o","n","e">> ELSE x

(***************************************************************************)
(* Python's str operations.                                                *)
(***************************************************************************)
\* p in s
Contains(s, p) ==
    \E i \in 1..(Len(s) - Len(p) + 1) : SubSeq(s, i, i + Len(p) - 1) = p

\* s.startswith(p)
StartsWith(s, p) == Len(s) >= Len(p) /\ SubSeq(s, 1, Len(p)) = p

\* s.find(p, from): the first position at or after from where p occurs, 0 if none
Find(s, p, from) ==
    LET hits == {i \in from..(Len(s) - Len(p) + 1) : SubSeq(s, i, i + Len(p) - 1) = p}
    IN  IF hits = {} THEN 0 ELSE CHOOSE i \in hits : \A j \in hits : i <= j

RECURSIVE ReplaceFrom(_, _, _, _)
ReplaceFrom(s, old, new, from) ==
    LET i == Find(s, old, from)
    IN  IF i = 0
        THEN SubSeq(s, from, Len(s))
        ELSE SubSeq(s, from, i - 1) \o new \o ReplaceFrom(s, old, new, i + Len(old))

\* s.replace(old, new): every occurrence, left to right, without overlap
\* (old is never empty in the script)
Replace(s, old, new) == ReplaceFrom(s, old, new, 1)

RECURSIVE Join(_, _)
\* sep.join(parts)
Join(sep, parts) ==
    IF parts = <<>> THEN <<>>
    ELSE IF Len(parts) = 1 THEN parts[1]
    ELSE parts[1] \o sep \o Join(sep, Tail(parts))

\* s[n:] for n >= 0
SliceFrom(s, n) == SubSeq(s, n + 1, Len(s))

\* s[:-1]
DropLast(s) == SubSeq(s, 1, Len(s) - 1)

LowerLetters == {"a","b","c","d","e","f","g","h","i","j","k","l","m",
                 "n","o","p","q","r","s","t","u","v","w","x","y","z"}
UpperLetters == {"A","B","C","D","E","F","G","H","I","J","K","L","M",
                 "N","O","P","Q","R","S","T","U","V","W","X","Y","Z"}
Digits == {"0","1","2","3","4","5","6","7","8","9"}
Alphabet == <<"a","b","c","d","e","f","g","h","i","j","k","l","m","n","o","p","q","r","s","t","u","v","w","x","y","z">>
UpperAlphabet == <<"A","B","C","D","E","F","G","H","I","J","K","L","M","N","O","P","Q","R","S","T","U","V","W","X","Y","Z">>

\* c.lower() for one character (the ASCII letters; other characters are kept)
LowerChar(c) ==
    IF c \in UpperLetters
    THEN Alphabet[CHOOSE i \in 1..26 : UpperAlphabet[i] = c]
    ELSE c

\* every sequence over S of length 0..n
SeqsUpTo(S, n) == UNION {[1..k -> S] : k \in 0..n}

(***************************************************************************)
(* get_time                                                                *)
(***************************************************************************)
\* get_time with the branches tested in the order m, M, h, H
GetTime_MinutesFirst(t) ==
    IF Contains(t, <<"m">>) THEN Replace(t, <<"m">>, <<" ","m","i","n","u","t","e","s">>)
    ELSE IF Contains(t, <<"M">>) THEN Replace(t, <<"M">>, <<" ","m","i","n","u","t","e","s">>)
    ELSE IF Contains(t, <<"h">>) THEN Replace(t, <<"h">>, <<" ","h","o","u","r","s">>)
    ELSE IF Contains(t, <<"H">>) THEN Replace(t, <<"H">>, <<" ","h","o","u","r","s">>)
    ELSE None

\* get_time(time): the first branch whose letter occurs rewrites the token;
\* a token with none of the four letters falls off the end (None)
GetTime(t) ==
    IF Contains(t, <<"h">>) THEN Replace(t, <<"h">>, <<" ","h","o","u","r","s">>)
    ELSE IF Contains(t, <<"H">>) THEN Replace(t, <<"H">>, <<" ","h","o","u","r","s">>)
    ELSE IF Contains(t, <<"m">>) THEN Replace(t, <<"m">>, <<" ","m","i","n","u","t","e","s">>)
    ELSE IF Contains(t, <<"M">>) THEN Replace(t, <<"M">>, <<" ","m","i","n","u","t","e","s">>)
    ELSE None

\* the longest time token the model draws
MaxTimeLen == 3

TimeChars == {"1", "3", "0", "h", "H", "m", "M"}

InitIdleTime == time = <<>> /\ time_ret = <<>>

\* one call of get_time
GetTimeCall ==
    /\ pc = "get_time"
    /\ time_ret' = GetTime(time)
    /\ pc' = "returned"
    /\ UNCHANGED <<time, citeVars, metaVars, contentVars, tutorialVars, fileVars>>

(***************************************************************************)
(* The regular expressions of format_tuto_content.  Each is a literal      *)
(* opening, one or more characters of a class (greedy: the longest run     *)
(* that still lets the rest match), and a literal closing.                 *)
(***************************************************************************)
\* [a-z0-9\-\_]
CiteKeyChar(c) == c \in LowerLetters \cup Digits \cup {"-", "_"}

\* [a-z\-\_]
IconNameChar(c) == c \in LowerLetters \cup {"-", "_"}

CiteOpen == <<"{","%"," ","c","i","t","e"," ">>
IconOpen == <<"{","%"," ","i","c","o","n"," ">>
TagClose == <<" ","%","}">>

\* the length of the key of a match of {% cite ([a-z0-9\-\_]+) %} that starts
\* at position i of s; 0 when there is no match at i
CiteKeyLen(s, i) ==
    LET start == i + Len(CiteOpen)
        lens == {n \in 1..(Len(s) - start - Len(TagClose) + 1) :
                    /\ \A k \in 0..(n - 1) : CiteKeyChar(s[start + k])
                    /\ SubSeq(s, start + n, start + n + Len(TagClose) - 1) = TagClose}
    IN  IF i + Len(CiteOpen) - 1 <= Len(s)
           /\ SubSeq(s, i, i + Len(CiteOpen) - 1) = CiteOpen
           /\ lens # {}
        THEN CHOOSE n \in lens : \A m \in lens : m <= n
        ELSE 0

\* the replacement written with \g<0> (the whole match) instead of \g<1>
CiteReplacement_WholeMatch(s, i, n) ==
    <<"[","@">> \o SubSeq(s, i, i + Len(CiteOpen) + n + Len(TagClose) - 1) \o <<"]">>

\* '[@\g<1>]' for the match at i whose key has length n
CiteReplacement(s, i, n) ==
    <<"[","@">> \o SubSeq(s, i + Len(CiteOpen), i + Len(CiteOpen) + n - 1) \o <<"]">>

RECURSIVE CiteSubFrom(_, _)
CiteSubFrom(s, from) ==
    LET hits == {i \in from..Len(s) : CiteKeyLen(s, i) > 0}
    IN  IF hits = {}
        THEN SubSeq(s, from, Len(s))
        ELSE LET i == CHOOSE h \in hits : \A j \in hits : h <= j
                 n == CiteKeyLen(s, i)
             IN  SubSeq(s, from, i - 1) \o CiteReplacement(s, i, n)
                   \o CiteSubFrom(s, i + Len(CiteOpen) + n + Len(TagClose))

\* re.sub(r'{% cite ([a-z0-9\-\_]+) %}', '[@\g<1>]', s): the matches are
\* taken leftmost first and never overlap
CiteSub(s) == CiteSubFrom(s, 1)

\* the number of fragments the texts of the citation model are built from
MaxCiteFrags == 5

CiteFragments == {<<"{","%"," ","c","i","t","e"," ">>, <<"a">>, <<"-","9","_">>, <<"B">>, <<" ","%","}">>, <<"[","@">>, <<"]">>}

RECURSIVE Flatten(_)
\* ''.join(parts)
Flatten(parts) == IF parts = <<>> THEN <<>> ELSE parts[1] \o Flatten(Tail(parts))

CiteTexts == {Flatten(fs0) : fs0 \in SeqsUpTo(CiteFragments, MaxCiteFrags)}

\* how many times the model applies the substitution to a text
MaxCiteRuns == 2

\* one application of the citation substitution to the current text
CiteApply ==
    /\ pc = "cite"
    /\ cite_n < MaxCiteRuns
    /\ cite_out' = CiteSub(cite_out)
    /\ cite_once' = IF cite_n = 0 THEN CiteSub(cite_out) ELSE cite_once
    /\ cite_n' = cite_n + 1
    /\ UNCHANGED <<pc, cite_in, timeVars, metaVars, contentVars, tutorialVars,
                   fileVars>>

InitIdleCite == cite_in = <<>> /\ cite_out = <<>> /\ cite_once = <<>> /\ cite_n = 0

(***************************************************************************)
(* The fixed texts of the script, character for character.                 *)
(***************************************************************************)
\* create_abstract: the opening sentences
AbstractAim == <<"<","w","h","y","/","a","i","m"," ","(","1","s","t"," ","p","a","r","a",
      "g","r","a","p","h"," ","o","f"," ","t","h","e"," ","i","n","t","r","o",
      "d","u","c","t","i","o","n",")",">","."," ","T","h","i","s"," ","t","u",
      "t","o","r","i","a","l"," ","i","s"," ","d","e","v","e","l","o","p","e",
      "d"," ","f","o","r"," ","t","h","e"," ","d","a","t","a"," ","a","n","a",
      "l","y","s","i","s"," ","p","l","a","t","f","o","r","m"," ","G","a","l",
      "a","x","y","."," ","T","h","e"," ","G","a","l","a","x","y","'","s"," ",
      "c","o","n","c","e","p","t"," ","m","a","k","e","s"," ","h","i","g","h",
      "-","t","h","r","o","u","g","h","p","u","t"," ","s","e","q","u","e","n",
      "c","i","n","g"," ","d","a","t","a"," ","a","n","a","l","y","s","i","s",
      " ","a"," ","s","t","r","u","c","t","u","r","e","d",","," ","r","e","p",
      "r","o","d","u","c","i","b","l","e"," ","a","n","d"," ","t","r","a","n",
      "s","p","a","r","e","n","t"," ","p","r","o","c","e","s","s","."," ">>

\* create_abstract: "In this tutorial we focus on %s questions: %s "
AbstractQuestions(n, qs) == <<"I","n"," ","t","h","i","s"," ","t","u","t","o","r","i","a","l"," ","w","e"," ","f","o","c","u","s"," ","o","n"," ">> \o n \o <<" ","q","u","e","s","t","i","o","n","s",":"," ">> \o qs \o <<" ">>

\* create_abstract: "After finishing this tutorial you will be able to %s."
AbstractObjectives(os) == <<"A","f","t","e","r"," ","f","i","n","i","s","h","i","n","g"," ","t","h","i","s"," ","t","u","t","o","r","i","a","l"," ","y","o","u"," ","w","i","l","l"," ","b","e"," ","a","b","l","e"," ","t","o"," ">> \o os \o <<".">>

\* create_abstract: the requirements sentence
AbstractRequirements == <<"R","e","q","u","i","r","e","m","e","n","t","s"," ","f","o","r"," ","t",
      "h","i","s"," ","t","u","t","o","r","i","a","l"," ","i","s"," ","a"," ",
      "m","i","n","i","m","a","l"," ","G","a","l","a","x","y"," ","e","x","p",
      "e","r","i","e","n","c","e"," ","a","n","d"," ","a"," ","G","a","l","a",
      "x","y"," ","a","c","c","o","u","n","t"," ","o","n"," ","t","h","e"," ",
      "G","a","l","a","x","y"," ","E","u","r","o","p","e"," ","s","e","r","v",
      "e","r","."," ">>

\* create_abstract: "The estimated duration of this tutorial is around %s."
AbstractDuration(t) == <<"T","h","e"," ","e","s","t","i","m","a","t","e","d"," ","d","u","r","a","t","i","o","n"," ","o","f"," ","t","h","i","s"," ","t","u","t","o","r","i","a","l"," ","i","s"," ","a","r","o","u","n","d"," ">> \o t \o <<".">>

\* format_tuto_content: the introduction, up to the address of the tutorial
IntroText == <<"\n","#"," ","I","n","t","r","o","d","u","c","t","i","o","n","\n","\n",
      "<","w","h","y","/","a","i","m"," ","(","1","s","t"," ","p","a","r","a",
      "g","r","a","p","h"," ","o","f"," ","t","h","e"," ","i","n","t","r","o",
      "d","u","c","t","i","o","n",")",">",".","\n","\n","T","h","i","s"," ",
      "t","u","t","o","r","i","a","l"," ","p","r","o","v","i","d","e","s"," ",
      "a"," ","d","e","t","a","i","l","e","d"," ","w","o","r","k","f","l","o",
      "w"," ","f","o","r"," ","<","o","u","t","p","u","t","s",">"," ","f","r",
      "o","m"," ","<","i","n","p","u","t","s",">"," ","u","s","i","n","g"," ",
      "G","a","l","a","x","y",".","G","a","l","a","x","y"," ","[","@","a","f",
      "g","a","n","2","0","1","8","g","a","l","a","x","y","]"," ","i","s"," ",
      "a"," ","d","a","t","a"," ","a","n","a","l","y","s","i","s"," ","p","l",
      "a","t","f","o","r","m"," ","t","h","a","t"," ","p","r","o","v","i","d",
      "e","s"," ","a","c","c","e","s","s"," ","t","o"," ","h","u","n","d","r",
      "e","d","s"," ","o","f"," ","t","o","o","l","s"," ","u","s","e","d"," ",
      "i","n"," ","a"," ","w","i","d","e"," ","v","a","r","i","e","t","y"," ",
      "o","f"," ","a","n","a","l","y","s","i","s"," ","s","c","e","n","a","r",
      "i","o","s","."," ","o","s","."," ","I","t"," ","f","e","a","t","u","r",
      "e","s"," ","a"," ","w","e","b","-","b","a","s","e","d"," ","u","s","e",
      "r"," ","i","n","t","e","r","f","a","c","e"," ","w","h","i","l","e"," ",
      "a","u","t","o","m","a","t","i","c","a","l","l","y"," ","a","n","d"," ",
      "t","r","a","n","s","p","a","r","e","n","t","l","y"," ","m","a","n","a",
      "g","i","n","g"," ","u","n","d","e","r","l","y","i","n","g"," ","c","o",
      "m","p","u","t","a","t","i","o","n"," ","d","e","t","a","i","l","s",".",
      " ","T","h","e"," ","G","a","l","a","x","y","'","s"," ","c","o","n","c",
      "e","p","t"," ","m","a","k","e","s"," ","h","i","g","h","-","t","h","r",
      "o","u","g","h","p","u","t"," ","s","e","q","u","e","n","c","i","n","g",
      " ","d","a","t","a"," ","a","n","a","l","y","s","i","s"," ","a"," ","s",
      "t","r","u","c","t","u","r","e","d",","," ","r","e","p","r","o","d","u",
      "c","i","b","l","e"," ","a","n","d"," ","t","r","a","n","s","p","a","r",
      "e","n","t"," ","p","r","o","c","e","s","s",".","\n","\n","T","h","e",
      " ","t","u","t","o","r","i","a","l"," ","s","t","a","r","t","s"," ","f",
      "r","o","m"," ","<","i","n","p","u","t","s",">","."," ","I","t"," ","r",
      "u","n","s"," ","f","i","r","s","t"," ","a"," ","<","o","v","e","r","v",
      "i","e","w"," ","o","f"," ","e","a","c","h"," ","s","t","e","p"," ","(",
      "1"," ","s","e","n","t","e","n","c","e",")"," ","o","f"," ","t","h","e",
      " ","w","o","r","k","f","l","o","w"," ","w","i","t","h"," ","t","o","o",
      "l"," ","n","a","m","e","s"," ","i","n"," ","b","o","l","d"," ","a","n",
      "d"," ","c","i","t","a","t","i","o","n",".",">","\n","\n","T","h","e",
      " ","e","n","t","i","r","e"," ","a","n","a","l","y","s","i","s"," ","d",
      "e","s","c","r","i","b","e","d"," ","t","h","i","s"," ","a","r","t","i",
      "c","l","e"," ","c","a","n"," ","b","e"," ","c","o","n","d","u","c","t",
      "e","d"," ","e","f","f","i","c","i","e","n","t","l","y"," ","o","n"," ",
      "a","n","y"," ","G","a","l","a","x","y"," ","s","e","r","v","e","r"," ",
      "w","h","i","c","h"," ","h","a","s"," ","t","h","e"," ","n","e","e","d",
      "e","d"," ","t","o","o","l","s","."," ","H","o","w","e","v","e","r",",",
      " ","t","o"," ","b","e"," ","s","u","r","e",","," ","t","h","e"," ","a",
      "u","t","h","o","r","s"," ","r","e","c","o","m","m","e","n","d"," ","t",
      "o"," ","u","s","e"," ","t","h","e"," ","G","a","l","a","x","y"," ","E",
      "u","r","o","p","e"," ","s","e","r","v","e","r"," ","(","h","t","t","p",
      "s",":","/","/","u","s","e","g","a","l","a","x","y",".","e","u","/",")",
      ".","\n","\n","T","h","e"," ","t","u","t","o","r","i","a","l"," ","p",
      "r","e","s","e","n","t","e","d"," ","i","n"," ","t","h","i","s"," ","a",
      "r","t","i","c","l","e"," ","h","a","s"," ","b","e","e","n"," ","d","e",
      "v","e","l","o","p","e","d"," ","b","y"," ","t","h","e"," ","G","a","l",
      "a","x","y"," ","T","r","a","i","n","i","n","g"," ","N","e","t","w","o",
      "r","k"," ","[","@","b","a","t","u","t","2","0","1","8","c","o","m","m",
      "u","n","i","t","y","]"," ","a","n","d"," ","i","s"," ","a","v","a","i",
      "l","a","b","l","e"," ","o","n","l","i","n","e"," ","a","t"," ","h","t",
      "t","p","s",":","/","/","t","r","a","i","n","i","n","g",".","g","a","l",
      "a","x","y","p","r","o","j","e","c","t",".","o","r","g","/">>

\* format_tuto_content: what follows the address of the tutorial
IntroEnd == <<".","\n","\n">>

\* format_tuto_content: the heading appended to the body
RefHeading == <<"\n","#"," ","R","e","f","e","r","e","n","c","e","s","\n","\n">>

\* format_tuto_content: the heading that replaces "# Introduction"
DescriptionHeading == <<"#"," ","D","e","s","c","r","i","p","t","i","o","n"," ","o","f"," ","t","h","e"," ","d","a","t","a","\n">>

\* add_references: the two fixed entries
FixedEntries == <<"@","a","r","t","i","c","l","e","{","a","f","g","a","n","2","0","1","8",
      "g","a","l","a","x","y",",","\n"," "," ","t","i","t","l","e","=","{","T",
      "h","e"," ","G","a","l","a","x","y"," ","p","l","a","t","f","o","r","m",
      " ","f","o","r"," ","a","c","c","e","s","s","i","b","l","e",","," ","r",
      "e","p","r","o","d","u","c","i","b","l","e"," ","a","n","d"," ","c","o",
      "l","l","a","b","o","r","a","t","i","v","e"," ","b","i","o","m","e","d",
      "i","c","a","l"," ","a","n","a","l","y","s","e","s",":"," ","2","0","1",
      "8"," ","u","p","d","a","t","e","}",",","\n"," "," ","a","u","t","h","o",
      "r","=","{","A","f","g","a","n",","," ","E","n","i","s"," ","a","n","d",
      " ","B","a","k","e","r",","," ","D","a","n","n","o","n"," ","a","n","d",
      " ","B","a","t","u","t",","," ","B","{","'","e","}","r","{","'","e","}",
      "n","i","c","e"," ","a","n","d"," ","V","a","n"," ","D","e","n"," ","B",
      "e","e","k",","," ","M","a","r","i","u","s"," ","a","n","d"," ","B","o",
      "u","v","i","e","r",","," ","D","a","v","e"," ","a","n","d"," ","{",
      "<VT>","{","C","}","}","e","c","h",","," ","M","a","r","t","i","n"," ",
      "a","n","d"," ","C","h","i","l","t","o","n",","," ","J","o","h","n"," ",
      "a","n","d"," ","C","l","e","m","e","n","t","s",","," ","D","a","v","e",
      " ","a","n","d"," ","C","o","r","a","o","r",","," ","N","a","t","e"," ",
      "a","n","d"," ","G","r","{","\"","u","}","n","i","n","g",","," ","B","j",
      "{","\"","o","}","r","n"," ","A"," ","a","n","d"," ","o","t","h","e","r",
      "s","}",",","\n"," "," ","j","o","u","r","n","a","l","=","{","N","u","c",
      "l","e","i","c"," ","a","c","i","d","s"," ","r","e","s","e","a","r","c",
      "h","}",",","\n"," "," ","v","o","l","u","m","e","=","{","4","6","}",",",
      "\n"," "," ","n","u","m","b","e","r","=","{","W","1","}",",","\n"," ",
      " ","p","a","g","e","s","=","{","W","5","3","7","-","-","W","5","4","4",
      "}",",","\n"," "," ","y","e","a","r","=","{","2","0","1","8","}",",",
      "\n"," "," ","p","u","b","l","i","s","h","e","r","=","{","O","x","f","o",
      "r","d"," ","U","n","i","v","e","r","s","i","t","y"," ","P","r","e","s",
      "s","}","\n","}","\n","\n","@","a","r","t","i","c","l","e","{","b","a",
      "t","u","t","2","0","1","8","c","o","m","m","u","n","i","t","y",",","\n",
      " "," ","t","i","t","l","e","=","{","C","o","m","m","u","n","i","t","y",
      "-","d","r","i","v","e","n"," ","d","a","t","a"," ","a","n","a","l","y",
      "s","i","s"," ","t","r","a","i","n","i","n","g"," ","f","o","r"," ","b",
      "i","o","l","o","g","y","}",",","\n"," "," ","a","u","t","h","o","r","=",
      "{","B","a","t","u","t",","," ","B","{","'","e","}","r","{","'","e","}",
      "n","i","c","e"," ","a","n","d"," ","H","i","l","t","e","m","a","n","n",
      ","," ","S","a","s","k","i","a"," ","a","n","d"," ","B","a","g","n","a",
      "c","a","n","i",","," ","A","n","d","r","e","a"," ","a","n","d"," ","B",
      "a","k","e","r",","," ","D","a","n","n","o","n"," ","a","n","d"," ","B",
      "h","a","r","d","w","a","j",","," ","V","i","v","e","k"," ","a","n","d",
      " ","B","l","a","n","k",","," ","C","l","e","m","e","n","s"," ","a","n",
      "d"," ","B","r","e","t","a","u","d","e","a","u",","," ","A","n","t","h",
      "o","n","y"," ","a","n","d"," ","B","r","i","l","l","e","t","-","G","u",
      "{","'","e","}","g","u","e","n",","," ","L","o","r","a","i","n","e"," ",
      "a","n","d"," ","{","<VT>","{","C","}","}","e","c","h",","," ","M","a",
      "r","t","i","n"," ","a","n","d"," ","C","h","i","l","t","o","n",","," ",
      "J","o","h","n"," ","a","n","d"," ","o","t","h","e","r","s","}",",","\n",
      " "," ","j","o","u","r","n","a","l","=","{","C","e","l","l"," ","s","y",
      "s","t","e","m","s","}",",","\n"," "," ","v","o","l","u","m","e","=","{",
      "6","}",",","\n"," "," ","n","u","m","b","e","r","=","{","6","}",",",
      "\n"," "," ","p","a","g","e","s","=","{","7","5","2","-","-","7","5","8",
      "}",",","\n"," "," ","y","e","a","r","=","{","2","0","1","8","}",",",
      "\n"," "," ","p","u","b","l","i","s","h","e","r","=","{","E","l","s","e",
      "v","i","e","r","}","\n","}","\n">>

(***************************************************************************)
(* format_tuto_content                                                     *)
(***************************************************************************)
\* the boxes whose opening line starts the suppression
BoxKinds == {<<"q","u","e","s","t","i","o","n">>, <<"d","e","t","a","i","l","s">>, <<"c","o","m","m","e","n","t">>, <<"t","i","p">>, <<"w","a","r","n","i","n","g">>}

\* the boxes whose closing annotation ends the suppression
ClosingKinds == BoxKinds \cup {<<"a","g","e","n","d","a">>}

\* re.search(r'{% icon (question|details|comment|tip|warning) %}', l)
IconBoxMatch(l) == \E k \in BoxKinds : Contains(l, IconOpen \o k \o TagClose)

\* the closing test that also takes a bare blockquote marker for the end of a box
ClosingMatch_OrBareMarker(l) ==
    \/ \E k \in ClosingKinds :
          Contains(l, <<"{",":",".">> \o k \o <<"}">>) \/ Contains(l, <<"{",":"," ",".">> \o k \o <<"}">>)
    \/ (StartsWith(l, <<">">>) /\ ~StartsWith(l, <<">"," ">>))

\* re.search(r'{:[ ]?\.(question|details|comment|tip|warning|agenda)}', l)
ClosingMatch(l) ==
    \E k \in ClosingKinds :
        Contains(l, <<"{",":",".">> \o k \o <<"}">>) \/ Contains(l, <<"{",":"," ",".">> \o k \o <<"}">>)

\* re.search(r'{:[ ]?\.no_toc}', l)
NoTocMatch(l) == Contains(l, <<"{",":",".","n","o","_","t","o","c","}">>) \/ Contains(l, <<"{",":"," ",".","n","o","_","t","o","c","}">>)

HandsOnIcon == <<"{","%"," ","i","c","o","n"," ","h","a","n","d","s","_","o","n"," ","%","}">>
HandsOnOpening == <<">"," ","#","#","#"," ","{","%"," ","i","c","o","n"," ","h","a","n","d","s","_","o","n"," ","%","}"," ">>
Bold == <<"*","*","*">>

\* the hands-on rewrite that keeps the line's last character
HandsOnRewrite_KeepsNewline(l) ==
    Replace(l, HandsOnOpening, Bold) \o Bold \o <<"\n">>

\* l = l.replace('> ### {% icon hands_on %} ', '***'); l = l[:-1] + '***\n'
HandsOnRewrite(l) ==
    DropLast(Replace(l, HandsOnOpening, Bold)) \o Bold \o <<"\n">>

\* One iteration of the loop over the lines: the rule that applies to line l
\* when the flag do_not_add_next_lines has the value flag.  emit says whether
\* the iteration reaches l_content.append(l), line is the l it appends, and
\* flag is the value of do_not_add_next_lines after the iteration.
LineRule(l, flag) ==
    IF Contains(l, <<"{","%"," ","i","n","c","l","u","d","e">>)
    THEN [emit |-> FALSE, line |-> l, flag |-> flag]
    ELSE IF IconBoxMatch(l)
    THEN [emit |-> FALSE, line |-> l, flag |-> TRUE]
    ELSE IF Contains(l, <<"#","#","#"," ","A","g","e","n","d","a">>)
    THEN [emit |-> FALSE, line |-> l, flag |-> TRUE]
    ELSE IF flag
    THEN [emit |-> FALSE, line |-> l, flag |-> ~ClosingMatch(l)]
    ELSE IF Contains(l, HandsOnIcon)
    THEN [emit |-> TRUE, line |-> HandsOnRewrite(l), flag |-> flag]
    ELSE IF Contains(l, <<"{",":"," ",".","h","a","n","d","s","_","o","n","}">>)
    THEN [emit |-> FALSE, line |-> l, flag |-> flag]
    ELSE IF StartsWith(l, <<">"," ">>)
    THEN [emit |-> TRUE, line |-> SliceFrom(l, 2), flag |-> flag]
    ELSE IF StartsWith(l, <<">">>)
    THEN [emit |-> FALSE, line |-> l, flag |-> flag]
    ELSE IF NoTocMatch(l)
    THEN [emit |-> FALSE, line |-> l, flag |-> flag]
    ELSE IF Contains(l, <<"#"," ","I","n","t","r","o","d","u","c","t","i","o","n">>)
    THEN [emit |-> TRUE, line |-> DescriptionHeading, flag |-> flag]
    ELSE [emit |-> TRUE, line |-> l, flag |-> flag]

\* the length of the icon name of a match of {% icon [a-z\-\_]+ %}[ ]? that
\* starts at position i of s; 0 when there is no match at i
IconNameLen(s, i) ==
    LET start == i + Len(IconOpen)
        lens == {n \in 1..(Len(s) - start - Len(TagClose) + 1) :
                    /\ \A k \in 0..(n - 1) : IconNameChar(s[start + k])
                    /\ SubSeq(s, start + n, start + n + Len(TagClose) - 1) = TagClose}
    IN  IF i + Len(IconOpen) - 1 <= Len(s)
           /\ SubSeq(s, i, i + Len(IconOpen) - 1) = IconOpen
           /\ lens # {}
        THEN CHOOSE n \in lens : \A m \in lens : m <= n
        ELSE 0

\* the length of the whole match at i: the tag and, when one follows, a space
IconMatchLen(s, i) ==
    LET n == IconNameLen(s, i)
        end == i + Len(IconOpen) + n + Len(TagClose)
    IN  Len(IconOpen) + n + Len(TagClose)
          + (IF end <= Len(s) /\ s[end] = " " THEN 1 ELSE 0)

RECURSIVE IconSubFrom(_, _)
IconSubFrom(s, from) ==
    LET hits == {i \in from..Len(s) : IconNameLen(s, i) > 0}
    IN  IF hits = {}
        THEN SubSeq(s, from, Len(s))
        ELSE LET i == CHOOSE h \in hits : \A j \in hits : h <= j
             IN  SubSeq(s, from, i - 1) \o IconSubFrom(s, i + IconMatchLen(s, i))

\* re.sub(r'{% icon [a-z\-\_]+ %}[ ]?', '', s)
IconSub(s) == IconSubFrom(s, 1)

ZenodoPlaceholder == <<"{","{"," ","p","a","g","e",".","z","e","n","o","d","o","_","l","i","n","k"," ","}","}">>

\* the introduction: the fixed text, then tuto_fp.replace('md', 'html'), then '.\n\n'
Intro(fp) == IntroText \o Replace(fp, <<"m","d">>, <<"h","t","m","l">>) \o IntroEnd

\* what format_tuto_content does after the loop: the introduction, the kept
\* lines and the references heading are joined, and the three substitutions
\* are applied to the whole string in turn
Assemble(lines, zenodo, fp) ==
    CiteSub(IconSub(Replace(Intro(fp) \o Flatten(lines) \o RefHeading,
                            ZenodoPlaceholder, zenodo)))

RECURSIVE KeptLines(_, _)
\* the loop over the lines as a whole: l_content when the loop ends, for a
\* loop that starts with the flag at the given value
KeptLines(lines, flag) ==
    IF lines = <<>> THEN <<>>
    ELSE LET r == LineRule(lines[1], flag)
         IN  (IF r.emit THEN <<r.line>> ELSE <<>>) \o KeptLines(Tail(lines), r.flag)

\* format_tuto_content(content, yaml_metadata, tuto_fp) as a function
FormatTutoContent(lines, zenodo, fp) == Assemble(KeptLines(lines, FALSE), zenodo, fp)

\* one iteration of `for l in content`
ForLine ==
    /\ pc = "loop"
    /\ idx < Len(content)
    /\ LET r == LineRule(content[idx + 1], do_not_add_next_lines)
       IN  /\ l_content' = IF r.emit THEN Append(l_content, r.line) ELSE l_content
           /\ do_not_add_next_lines' = r.flag
           /\ trace' = Append(trace, [flag |-> do_not_add_next_lines, emit |-> r.emit])
    /\ idx' = idx + 1
    /\ UNCHANGED <<pc, content, zenodo_link, tuto_fp, form_content,
                   timeVars, citeVars, metaVars, tutorialVars, fileVars>>

\* the end of the loop: the string is assembled and returned
Return ==
    /\ pc = "loop"
    /\ idx = Len(content)
    /\ form_content' = Assemble(l_content, zenodo_link, tuto_fp)
    /\ pc' = "returned"
    /\ UNCHANGED <<content, idx, do_not_add_next_lines, l_content, trace, zenodo_link,
                   tuto_fp, timeVars, citeVars, metaVars, tutorialVars, fileVars>>

\* the longest body of the box model
MaxBody == 4

\* the longest body of the hands-on model
MaxHandsOnBody == 3

\* > ### {% icon question %} Q      > > ### {% icon tip %} T
\* > {: .tip}                       {: .question}
\* >                                > text
\* ### Agenda
BoxLines ==
    {<<">"," ","#","#","#"," ","{","%"," ","i","c","o","n"," ","q","u","e","s","t","i","o","n"," ","%","}"," ","Q","\n">>, <<">"," ",">"," ","#","#","#"," ","{","%"," ","i","c","o","n"," ","t","i","p"," ","%","}"," ","T","\n">>,
     <<">"," ","{",":"," ",".","t","i","p","}","\n">>, <<"{",":"," ",".","q","u","e","s","t","i","o","n","}","\n">>, <<">","\n">>, <<">"," ","t","e","x","t","\n">>, <<"#","#","#"," ","A","g","e","n","d","a","\n">>}

\* what may follow the hands-on opening on its line
HandsOnTitles ==
    {<<"S","t","e","p"," ","1">>, <<>>, <<"#","#","#"," ","A","g","e","n","d","a">>, <<"s","e","e"," ","{","%"," ","c","i","t","e"," ","a"," ","%","}">>, <<"{",":"," ",".","t","i","p","}","*">>}

HandsOnLines ==
    {HandsOnOpening \o t \o <<"\n">> : t \in HandsOnTitles}
      \cup {<<">"," ","#","#","#"," ","{","%"," ","i","c","o","n"," ","c","o","m","m","e","n","t"," ","%","}"," ","C","\n">>, <<"{",":"," ",".","c","o","m","m","e","n","t","}","\n">>, <<"{",":"," ",".","h","a","n","d","s","_","o","n","}","\n">>,
            <<"#"," ","I","n","t","r","o","d","u","c","t","i","o","n","\n">>, <<"{",":",".","n","o","_","t","o","c","}","\n">>,
            <<">"," ","{","%"," ","i","n","c","l","u","d","e"," ","x"," ","%","}"," ",
      "{","%"," ","i","c","o","n"," ","g","a","l","a","x","y","-","e","y","e",
      " ","%","}"," ","{","{"," ","p","a","g","e",".","z","e","n","o","d","o",
      "_","l","i","n","k"," ","}","}","\n">>}

ZenodoLinks == {<<>>, <<"h","t","t","p","s",":","/","/","z","e","n","o","d","o",".","o","r","g","/","r","e","c","o","r","d","/","1">>}

ContentPath == <<"t","o","p","i","c","s","/","m","d","/","t","u","t","o","r","i","a","l",".","m","d">>

InitIdleContent ==
    /\ content = <<>> /\ idx = 0 /\ do_not_add_next_lines = FALSE /\ l_content = <<>>
    /\ trace = <<>> /\ zenodo_link = <<>> /\ tuto_fp = <<>> /\ form_content = <<>>

(***************************************************************************)
(* Python values.  A dict is the sequence of its items [k, v] in insertion *)
(* order; keys are texts.  A value loaded from YAML carries its type:      *)
(* [t |-> "str" | "list" | "none" | "dict", val |-> ...].                  *)
(***************************************************************************)
PyStr(s) == [t |-> "str", val |-> s]
PyList(xs) == [t |-> "list", val |-> xs]
PyDict(d) == [t |-> "dict", val |-> d]
PyNone == [t |-> "none", val |-> <<>>]

\* k in d
HasKey(d, k) == \E i \in 1..Len(d) : d[i].k = k

\* d[k]
Get(d, k) == d[CHOOSE i \in 1..Len(d) : d[i].k = k].v

\* d[k] = v
Put(d, k, v) ==
    IF HasKey(d, k)
    THEN [i \in 1..Len(d) |-> IF d[i].k = k THEN [k |-> k, v |-> v] ELSE d[i]]
    ELSE Append(d, [k |-> k, v |-> v])

\* what a for loop or join sees of a value: the items of a list, the
\* characters of a str
Items(x) == IF x.t = "str" THEN [i \in 1..Len(x.val) |-> <<x.val[i]>>] ELSE x.val

DigitChars == <<"0","1","2","3","4","5","6","7","8","9">>

RECURSIVE DecStr(_)
\* '%s' % n for an int n >= 0
DecStr(n) == IF n < 10 THEN <<DigitChars[n + 1]>>
             ELSE DecStr(n \div 10) \o <<DigitChars[(n % 10) + 1]>>

(***************************************************************************)
(* get_author_name, create_abstract, extract_metadata                      *)
(***************************************************************************)
NameField == <<"n","a","m","e">>

\* get_author_name without the test for the name field
GetAuthorName_NoNameTest(author_id, dir) ==
    IF HasKey(dir, author_id)
    THEN (IF HasKey(Get(dir, author_id), NameField)
          THEN Get(Get(dir, author_id), NameField)
          ELSE None)
    ELSE author_id

\* get_author_name(author_id, contributors)
GetAuthorName(author_id, dir) ==
    IF HasKey(dir, author_id) /\ HasKey(Get(dir, author_id), NameField)
    THEN Get(Get(dir, author_id), NameField)
    ELSE author_id

\* s[0].lower() + s[1:]
LowerFirst(s) == <<LowerChar(s[1])>> \o SliceFrom(s, 1)

\* create_abstract(metadata)
CreateAbstract(ym) ==
    LET questions == Items(Get(ym, <<"q","u","e","s","t","i","o","n","s">>))
        objectives == Items(Get(ym, <<"o","b","j","e","c","t","i","v","e","s">>))
    IN  AbstractAim
          \o AbstractQuestions(DecStr(Len(questions)), Join(<<" ">>, questions))
          \o AbstractObjectives(
                Join(<<","," ">>, [i \in 1..Len(objectives) |-> LowerFirst(objectives[i])]))
          \o AbstractRequirements
          \o AbstractDuration(Str(GetTime(Get(ym, <<"t","i","m","e","_","e","s","t","i","m","a","t","i","o","n">>).val)))

\* the front matter on which extract_metadata raises: a document that is not
\* a mapping (TypeError), a missing key (KeyError), a key without a value
\* where a list or a str is used (TypeError), an empty objective (IndexError)
ExtractMetadataRaises(y) ==
    \/ y.t # "dict"
    \/ \E k \in {<<"t","i","t","l","e">>, <<"c","o","n","t","r","i","b","u","t","o","r","s">>, <<"q","u","e","s","t","i","o","n","s">>, <<"o","b","j","e","c","t","i","v","e","s">>,
                 <<"t","i","m","e","_","e","s","t","i","m","a","t","i","o","n">>} : ~HasKey(y.val, k)
    \/ \E k \in {<<"c","o","n","t","r","i","b","u","t","o","r","s">>, <<"q","u","e","s","t","i","o","n","s">>, <<"o","b","j","e","c","t","i","v","e","s">>} :
          Get(y.val, k).t = "none"
    \/ Get(y.val, <<"t","i","m","e","_","e","s","t","i","m","a","t","i","o","n">>).t # "str"
    \/ \E i \in 1..Len(Items(Get(y.val, <<"o","b","j","e","c","t","i","v","e","s">>))) :
          Items(Get(y.val, <<"o","b","j","e","c","t","i","v","e","s">>))[i] = <<>>

\* the for loop of extract_metadata: one author per contributor, in order
Authors(ids, dir) == [i \in 1..Len(ids) |-> GetAuthorName(ids[i], dir)]

\* extract_metadata(yaml_metadata, contributor_fp), for front matter on which
\* it does not raise; dir is what extract_contributors loads
ExtractMetadata(y, dir) ==
    <<[k |-> <<"t","i","t","l","e">>, v |-> Get(y.val, <<"t","i","t","l","e">>)],
      [k |-> <<"a","u","t","h","o","r">>, v |-> PyList(Authors(Items(Get(y.val, <<"c","o","n","t","r","i","b","u","t","o","r","s">>)), dir))],
      [k |-> <<"a","b","s","t","r","a","c","t">>, v |-> PyStr(CreateAbstract(y.val))],
      [k |-> <<"b","i","b","l","i","o","g","r","a","p","h","y">>, v |-> PyStr(<<"r","e","f","e","r","e","n","c","e","s",".","b","i","b">>)]>>

\* the position of a lowercase letter in the alphabet (its order by code point)
Ord(c) == CHOOSE i \in 1..26 : Alphabet[i] = c

RECURSIVE StrLess(_, _)
\* a < b for two str of lowercase letters
StrLess(a, b) ==
    IF b = <<>> THEN FALSE
    ELSE IF a = <<>> THEN TRUE
    ELSE IF a[1] # b[1] THEN Ord(a[1]) < Ord(b[1])
    ELSE StrLess(Tail(a), Tail(b))

\* a dump that writes the items in the order of the dict
YamlDump_InsertionOrder(d) == d

RECURSIVE SortedItems(_)
SortedItems(d) ==
    IF d = <<>> THEN <<>>
    ELSE LET i == CHOOSE m \in 1..Len(d) :
                      \A n \in 1..Len(d) : n = m \/ StrLess(d[m].k, d[n].k)
         IN  <<d[i]>> \o SortedItems(SubSeq(d, 1, i - 1) \o SubSeq(d, i + 1, Len(d)))

\* yaml.dump(metadata): the block mapping that PyYAML writes, as the sequence
\* of its entries from the first line to the last.  PyYAML sorts the items of
\* a mapping by key before it writes them.
YamlDump(d) == SortedItems(d)

\* the contributor identifiers and display names of the model
Ids == {<<"b","e","b","a","t","u","t">>, <<"a","b">>, <<"z","-","9">>}

NameOf(id) == IF id = <<"b","e","b","a","t","u","t">> THEN <<"B","e","r","e","n","i","c","e"," ","B","a","t","u","t">>
              ELSE IF id = <<"a","b">> THEN <<"A","n","n"," ","B">> ELSE <<"Z","e","d">>

\* a directory entry: with a name, with other fields only, with no field
EntryOf(id, kind) ==
    IF kind = "named"
    THEN <<[k |-> <<"j","o","i","n","e","d">>, v |-> <<"2","0","1","7","-","0","9">>], [k |-> NameField, v |-> NameOf(id)]>>
    ELSE IF kind = "unnamed" THEN <<[k |-> <<"j","o","i","n","e","d">>, v |-> <<"2","0","1","7","-","0","9">>]>>
    ELSE <<>>

IdOrder == <<<<"b","e","b","a","t","u","t">>, <<"a","b">>, <<"z","-","9">>>>

RECURSIVE DirectoryFrom(_, _)
DirectoryFrom(choice, n) ==
    IF n > Len(IdOrder) THEN <<>>
    ELSE (IF choice[IdOrder[n]] = "absent" THEN <<>>
          ELSE <<[k |-> IdOrder[n], v |-> EntryOf(IdOrder[n], choice[IdOrder[n]])]>>)
         \o DirectoryFrom(choice, n + 1)

\* every contributor directory over the identifiers of the model
Directories ==
    {DirectoryFrom(c, 1) : c \in [Ids -> {"absent", "named", "unnamed", "empty"}]}

\* the longest contributors list of the model
MaxContributors == 3

\* front matter with the given contributors and every other key in place
FrontMatterWith(ids) ==
    PyDict(<<[k |-> <<"t","i","t","l","e">>, v |-> PyStr(<<"T">>)],
             [k |-> <<"c","o","n","t","r","i","b","u","t","o","r","s">>, v |-> PyList(ids)],
             [k |-> <<"q","u","e","s","t","i","o","n","s">>, v |-> PyList(<<<<"H","o","w"," ","d","o","e","s"," ","X"," ","w","o","r","k","?">>>>)],
             [k |-> <<"o","b","j","e","c","t","i","v","e","s">>, v |-> PyList(<<<<"E","x","p","l","a","i","n"," ","X",".">>>>)],
             [k |-> <<"t","i","m","e","_","e","s","t","i","m","a","t","i","o","n">>, v |-> PyStr(<<"1","h">>)],
             [k |-> <<"z","e","n","o","d","o","_","l","i","n","k">>, v |-> PyStr(<<>>)]>>)

\* one call of extract_metadata
ExtractMetadataCall ==
    /\ pc = "extract_metadata"
    /\ IF ExtractMetadataRaises(yaml_metadata)
       THEN pc' = "raised" /\ UNCHANGED metadata
       ELSE pc' = "returned" /\ metadata' = ExtractMetadata(yaml_metadata, contributors)
    /\ UNCHANGED <<yaml_metadata, contributors, timeVars, citeVars, contentVars,
                   tutorialVars, fileVars>>

InitIdleMeta == yaml_metadata = PyNone /\ contributors = <<>> /\ metadata = <<>>

(***************************************************************************)
(* Files.  A file is [exists, data]; data is the text of a bibliography,   *)
(* the lines of tutorial.md (readlines), the mapping that CONTRIBUTORS.yaml *)
(* holds, or the sequence of the strings written to article.md.            *)
(***************************************************************************)
NoFile == [exists |-> FALSE, data |-> <<>>]
File(d) == [exists |-> TRUE, data |-> d]

(***************************************************************************)
(* yaml.load, for the block mappings of the model: lines 'key: value',     *)
(* and lines 'key:' followed by items '- value' or '  - value'.            *)
(***************************************************************************)
RECURSIVE SplitLines(_)
\* the lines of a text, without their newlines
SplitLines(text) ==
    IF text = <<>> THEN <<>>
    ELSE LET n == Find(text, <<"\n">>, 1)
         IN  IF n = 0 THEN <<text>>
             ELSE <<SubSeq(text, 1, n - 1)>> \o SplitLines(SliceFrom(text, n))

\* the item a line holds, <<>> when the line is not an item of a list
IsItemLine(l) == StartsWith(l, <<"-"," ">>) \/ StartsWith(l, <<" "," ","-"," ">>)
ItemOf(l) == IF StartsWith(l, <<"-"," ">>) THEN SliceFrom(l, 2) ELSE SliceFrom(l, 4)

\* the mapping after one more line
ParseLine(d, l) ==
    IF IsItemLine(l)
    THEN LET last == d[Len(d)]
             items == IF last.v.t = "list" THEN last.v.val ELSE <<>>
         IN  Put(d, last.k, PyList(Append(items, ItemOf(l))))
    ELSE LET n == Find(l, <<":"," ">>, 1)
         IN  IF n > 0
             THEN Put(d, SubSeq(l, 1, n - 1), PyStr(SliceFrom(l, n + 1)))
             ELSE Put(d, DropLast(l), PyNone)

RECURSIVE ParseLines(_, _)
ParseLines(d, lines) ==
    IF lines = <<>> THEN d ELSE ParseLines(ParseLine(d, lines[1]), Tail(lines))

\* yaml.load(text): None for an empty document, the mapping otherwise
YamlLoad(text) ==
    IF text = <<>> THEN PyNone ELSE PyDict(ParseLines(<<>>, SplitLines(text)))

(***************************************************************************)
(* format_tutorial                                                         *)
(***************************************************************************)
Delimiter == <<"-","-","-">>

\* The value of i when the for loop over enumerate(full_content[1:]) ends:
\* the index (from 0) in full_content[1:] of the first line that starts with
\* '---', or of its last line when the loop runs to the end.  The loop binds
\* no i when full_content[1:] is empty.
LoopIndex(fc) ==
    LET rest == Tail(fc)
        hits == {j \in 1..Len(rest) : StartsWith(rest[j], Delimiter)}
    IN  IF hits = {} THEN Len(rest) - 1
        ELSE (CHOOSE j \in hits : \A h \in hits : j <= h) - 1

\* full_content[1:i]
YamlLines(fc) == SubSeq(fc, 2, LoopIndex(fc))

\* full_content[i+2:]
BodyLines(fc) == SubSeq(fc, LoopIndex(fc) + 3, Len(fc))

\* format_tuto_content raises on yaml_metadata['zenodo_link'] (KeyError), or
\* in str.replace when the key has no value (TypeError)
ContentRaises(y) ==
    \/ ~HasKey(y.val, <<"z","e","n","o","d","o","_","l","i","n","k">>)
    \/ Get(y.val, <<"z","e","n","o","d","o","_","l","i","n","k">>).t # "str"

TutoPath == <<"t","o","p","i","c","s","/","m","d","/","t","u","t","o","r","i","a","l",".","m","d">>

\* the four strings format_tutorial writes to the formatted document
ArticleWrites(y, meta, body) ==
    <<<<"-","-","-","\n">>, YamlDump(meta), <<"-","-","-","\n">>,
      FormatTutoContent(body, Get(y.val, <<"z","e","n","o","d","o","_","l","i","n","k">>).val, TutoPath)>>

\* format_tutorial(tuto_fp, formatted_tuto_fp, contributor_fp) on the lines fc
\* of the tutorial and the mapping dir of the contributors file: how far it
\* gets (stage) and the values it computes on the way.
\*   "unbound":  full_content[1:] is empty, i is not bound (line 201 raises)
\*   "metadata": extract_metadata raises
\*   "content":  format_tuto_content raises
\*   "written":  the formatted document is written
FormatTutorial(fc, dir) ==
    IF Len(fc) <= 1
    THEN [stage |-> "unbound", yaml_src |-> <<>>, yaml_metadata |-> PyNone,
          metadata |-> <<>>, body_src |-> <<>>, writes |-> <<>>]
    ELSE LET ys == YamlLines(fc)
             y == YamlLoad(Flatten(ys))
         IN  IF ExtractMetadataRaises(y)
             THEN [stage |-> "metadata", yaml_src |-> ys, yaml_metadata |-> y,
                   metadata |-> <<>>, body_src |-> <<>>, writes |-> <<>>]
             ELSE IF ContentRaises(y)
             THEN [stage |-> "content", yaml_src |-> ys, yaml_metadata |-> y,
                   metadata |-> ExtractMetadata(y, dir), body_src |-> BodyLines(fc),
                   writes |-> <<>>]
             ELSE [stage |-> "written", yaml_src |-> ys, yaml_metadata |-> y,
                   metadata |-> ExtractMetadata(y, dir), body_src |-> BodyLines(fc),
                   writes |-> ArticleWrites(y, ExtractMetadata(y, dir), BodyLines(fc))]

\* one call of format_tutorial on the files as they are
FormatTutorialCall ==
    /\ pc = "format_tutorial"
    /\ LET r == FormatTutorial(tutorial_md.data, contributors_yaml.data)
       IN  /\ full_content' = tutorial_md.data
           /\ yaml_src' = r.yaml_src
           /\ body_src' = r.body_src
           /\ yaml_metadata' = r.yaml_metadata
           /\ contributors' = IF r.stage = "unbound" THEN contributors
                              ELSE contributors_yaml.data
           /\ metadata' = r.metadata
           /\ article_md' = IF r.stage = "written" THEN File(r.writes) ELSE article_md
           /\ pc' = r.stage
    /\ UNCHANGED <<tuto_dp, tutorial_md, tutorial_bib, contributors_yaml, article_dp,
                   references_bib, runs, timeVars, citeVars, contentVars>>

\* the blocks the front matter of the model is made of
FrontBlock(b, ids) ==
    IF b = "title" THEN <<<<"t","i","t","l","e",":"," ","T","\n">>>>
    ELSE IF b = "zenodo_link" THEN <<<<"z","e","n","o","d","o","_","l","i","n","k",":"," ","h","t","t","p","s",":","/","/","z","\n">>>>
    ELSE IF b = "time_estimation" THEN <<<<"t","i","m","e","_","e","s","t","i","m","a","t","i","o","n",":"," ","1","h","\n">>>>
    ELSE IF b = "questions" THEN <<<<"q","u","e","s","t","i","o","n","s",":","\n">>, <<"-"," ","H","o","w"," ","d","o","e","s"," ","X"," ","w","o","r","k","?","\n">>>>
    ELSE IF b = "objectives" THEN <<<<"o","b","j","e","c","t","i","v","e","s",":","\n">>, <<" "," ","-"," ","E","x","p","l","a","i","n"," ","X",".","\n">>>>
    ELSE IF b = "contributors"
    THEN <<<<"c","o","n","t","r","i","b","u","t","o","r","s",":","\n">>>> \o [i \in 1..Len(ids) |-> <<"-"," ">> \o ids[i] \o <<"\n">>]
    ELSE <<<<"l","e","v","e","l",":"," ","I","n","t","r","o","d","u","c","t","o","r","y","\n">>>>

BlockOrder ==
    <<"title", "zenodo_link", "questions", "objectives", "time_estimation", "level",
      "contributors">>

\* the front matter whose blocks are those of BlockOrder, starting with the
\* block after the r-th one and wrapping around
FrontMatter(r, ids) ==
    Flatten([j \in 1..Len(BlockOrder) |->
                FrontBlock(BlockOrder[((r + j - 1) % Len(BlockOrder)) + 1], ids)])

\* the longest body of the documents of the model
MaxDocBody == 2

\* the longest contributors list of the documents of the model
MaxDocContributors == 2

DocBodyLines == {<<">"," ","t","e","x","t"," ","{","%"," ","c","i","t","e"," ","a"," ","%","}","\n">>, <<"-","-","-","\n">>}

DocIds == {<<"b","e","b","a","t","u","t">>, <<"a","b">>}

\* the tutorials of the model: front matter between two '---' lines, then a
\* body; and the same without the closing '---' line and without a body
Tutorials ==
    {<<<<"-","-","-","\n">>>> \o FrontMatter(r, ids) \o <<<<"-","-","-","\n">>>> \o b :
        r \in 0..(Len(BlockOrder) - 1),
        ids \in SeqsUpTo(DocIds, MaxDocContributors),
        b \in SeqsUpTo(DocBodyLines, MaxDocBody)}
    \cup {<<<<"-","-","-","\n">>>> \o FrontMatter(r, <<<<"a","b">>>>) : r \in 0..(Len(BlockOrder) - 1)}
    \cup {<<>>, <<<<"-","-","-","\n">>>>, <<<<"-","-","-","\n">>, <<"-","-","-","\n">>>>, <<<<"-","-","-","\n">>, <<"-","-","-","\n">>, <<"t","e","x","t","\n">>>>}

DocDirectories ==
    {DirectoryFrom(c, 1) : c \in [Ids -> {"named"}]}
    \cup {DirectoryFrom(c, 1) : c \in [Ids -> {"absent"}]}

\* an article left by an earlier run
OldArticle == File(<<<<"-","-","-","\n">>, <<>>, <<"-","-","-","\n">>, <<"o","l","d","\n">>>>)

InitIdleTutorial == full_content = <<>> /\ yaml_src = <<>> /\ body_src = <<>>

(***************************************************************************)
(* add_references                                                          *)
(***************************************************************************)
\* add_references that starts from the file it is about to write
AddReferencesText_FromOutput(tuto_ref, article_ref) ==
    (IF article_ref.exists THEN article_ref.data ELSE <<>>) \o FixedEntries

\* the text add_references writes: the tutorial's bibliography when the file
\* exists, then the two fixed entries
AddReferencesText(tuto_ref, article_ref) ==
    (IF tuto_ref.exists THEN tuto_ref.data ELSE <<>>) \o FixedEntries

\* how many times in a row the model runs add_references
MaxRefRuns == 3

\* one run of add_references(article_ref_fp, tuto_ref_fp)
AddReferencesCall ==
    /\ pc = "add_references"
    /\ runs < MaxRefRuns
    /\ references_bib' = File(AddReferencesText(tutorial_bib, references_bib))
    /\ runs' = runs + 1
    /\ UNCHANGED <<pc, tuto_dp, tutorial_md, tutorial_bib, contributors_yaml, article_dp,
                   article_md, timeVars, citeVars, metaVars, contentVars, tutorialVars>>

TutorialBibs ==
    {NoFile, File(<<>>), File(<<"\n">>), File(<<"@","m","i","s","c","{","x","}">>), File(<<"@","m","i","s","c","{","y","}","\n">>),
     File(<<"@","m","i","s","c","{","x","}","\n","\n","@","m","i","s","c","{","y","}","\n">>), File(<<"@","b","o","o","k","{","z",",","\n"," "," ","y","e","a","r","=","{","2","0","1","8","}","\n","}","\n">>),
     File(FixedEntries)}

OldReferences ==
    {NoFile, File(<<>>), File(<<"o","l","d">>), File(<<"@","m","i","s","c","{","x","}">>), File(FixedEntries),
     File(FixedEntries \o FixedEntries)}

\* between two series of runs the author of the tutorial edits, creates or
\* deletes tutorial.bib
EditTutorialBib ==
    /\ pc = "add_references"
    /\ tutorial_bib' \in TutorialBibs \ {tutorial_bib}
    /\ runs' = 0
    /\ UNCHANGED <<pc, tuto_dp, tutorial_md, contributors_yaml, article_dp, article_md,
                   references_bib, timeVars, citeVars, metaVars, contentVars,
                   tutorialVars>>

(***************************************************************************)
(* The script: the statements under `if __name__ == '__main__'`            *)
(***************************************************************************)
\* how many times in a row the model runs the script
MaxMainRuns == 2

\* One run of the script on the files as they are.  check_exists raises for
\* the tutorial directory, then for tutorial.md; then the article directory
\* is made; then check_exists raises for CONTRIBUTORS.yaml; then the
\* tutorial is formatted and the references are written.
Main ==
    /\ pc \in {"main", "exited", "failed"}
    /\ runs < MaxMainRuns
    /\ runs' = runs + 1
    /\ IF ~tuto_dp \/ ~tutorial_md.exists
       THEN /\ pc' = "failed"
            /\ UNCHANGED <<article_dp, article_md, references_bib, metaVars,
                           tutorialVars>>
       ELSE /\ article_dp' = TRUE
            /\ IF ~contributors_yaml.exists
               THEN /\ pc' = "failed"
                    /\ UNCHANGED <<article_md, references_bib, metaVars, tutorialVars>>
               ELSE LET r == FormatTutorial(tutorial_md.data, contributors_yaml.data)
                    IN  /\ full_content' = tutorial_md.data
                        /\ yaml_src' = r.yaml_src
                        /\ body_src' = r.body_src
                        /\ yaml_metadata' = r.yaml_metadata
                        /\ contributors' = IF r.stage = "unbound" THEN contributors
                                           ELSE contributors_yaml.data
                        /\ metadata' = r.metadata
                        /\ IF r.stage = "written"
                           THEN /\ article_md' = File(r.writes)
                                /\ references_bib' =
                                      File(AddReferencesText(tutorial_bib, references_bib))
                                /\ pc' = "exited"
                           ELSE /\ pc' = "failed"
                                /\ UNCHANGED <<article_md, references_bib>>
    /\ UNCHANGED <<tuto_dp, tutorial_md, tutorial_bib, contributors_yaml,
                   timeVars, citeVars, contentVars>>

\* the tutorials of the script model: one that is formatted, one on which
\* format_tutorial raises, one with no line
MainTutorials ==
    {<<<<"-","-","-","\n">>>> \o FrontMatter(0, <<<<"b","e","b","a","t","u","t">>, <<"a","b">>>>) \o <<<<"-","-","-","\n">>, <<">"," ","t","e","x","t","\n">>>>,
     <<<<"-","-","-","\n">>>> \o FrontMatter(1, <<<<"a","b">>>>) \o <<<<"-","-","-","\n">>, <<">"," ","t","e","x","t","\n">>>>,
     <<>>}

InitIdleFiles ==
    /\ tuto_dp = FALSE /\ tutorial_md = NoFile /\ tutorial_bib = NoFile
    /\ contributors_yaml = NoFile /\ article_dp = FALSE /\ article_md = NoFile
    /\ references_bib = NoFile /\ runs = 0

(***************************************************************************)
(* Specifications: one per function under study, each drawing the         *)
(* function's inputs in its initial states.                                *)
(***************************************************************************)
InitTime ==
    /\ pc = "get_time"
    /\ time \in SeqsUpTo(TimeChars, MaxTimeLen)
    /\ time_ret = <<>>
    /\ InitIdleCite /\ InitIdleMeta /\ InitIdleContent /\ InitIdleTutorial
    /\ InitIdleFiles

NextTime == GetTimeCall

SpecTime == InitTime /\ [][NextTime]_vars

InitCite ==
    /\ pc = "cite"
    /\ cite_in \in CiteTexts
    /\ cite_out = cite_in
    /\ cite_once = <<>>
    /\ cite_n = 0
    /\ InitIdleTime /\ InitIdleMeta /\ InitIdleContent /\ InitIdleTutorial
    /\ InitIdleFiles

NextCite == CiteApply

SpecCite == InitCite /\ [][NextCite]_vars

InitContentCall(lines, n) ==
    /\ pc = "loop"
    /\ content \in SeqsUpTo(lines, n)
    /\ idx = 0
    /\ do_not_add_next_lines = FALSE
    /\ l_content = <<>>
    /\ trace = <<>>
    /\ zenodo_link \in ZenodoLinks
    /\ tuto_fp = ContentPath
    /\ form_content = <<>>
    /\ InitIdleTime /\ InitIdleCite /\ InitIdleMeta /\ InitIdleTutorial
    /\ InitIdleFiles

InitBoxes == InitContentCall(BoxLines, MaxBody)

InitHandsOn == InitContentCall(HandsOnLines, MaxHandsOnBody)

NextContent == ForLine \/ Return

SpecBoxes == InitBoxes /\ [][NextContent]_vars

SpecHandsOn == InitHandsOn /\ [][NextContent]_vars

InitMetadata ==
    /\ pc = "extract_metadata"
    /\ \E ids \in SeqsUpTo(Ids, MaxContributors) : yaml_metadata = FrontMatterWith(ids)
    /\ contributors \in Directories
    /\ metadata = <<>>
    /\ InitIdleTime /\ InitIdleCite /\ InitIdleContent /\ InitIdleTutorial
    /\ InitIdleFiles

NextMetadata == ExtractMetadataCall

SpecMetadata == InitMetadata /\ [][NextMetadata]_vars

InitTutorial ==
    /\ pc = "format_tutorial"
    /\ tuto_dp = TRUE
    /\ tutorial_md \in {File(t) : t \in Tutorials}
    /\ tutorial_bib = NoFile
    /\ contributors_yaml \in {File(d) : d \in DocDirectories}
    /\ article_dp = TRUE
    /\ article_md \in {NoFile, OldArticle}
    /\ references_bib = NoFile
    /\ runs = 0
    /\ InitIdleTutorial /\ InitIdleMeta
    /\ InitIdleTime /\ InitIdleCite /\ InitIdleContent

NextTutorial == FormatTutorialCall

SpecTutorial == InitTutorial /\ [][NextTutorial]_vars

InitRefs ==
    /\ pc = "add_references"
    /\ tuto_dp = TRUE
    /\ tutorial_md = NoFile
    /\ tutorial_bib \in TutorialBibs
    /\ contributors_yaml = NoFile
    /\ article_dp = TRUE
    /\ article_md = NoFile
    /\ references_bib \in OldReferences
    /\ runs = 0
    /\ InitIdleTutorial /\ InitIdleMeta
    /\ InitIdleTime /\ InitIdleCite /\ InitIdleContent

NextRefs == AddReferencesCall \/ EditTutorialBib

SpecRefs == InitRefs /\ [][NextRefs]_vars

InitMain ==
    /\ pc = "main"
    /\ tuto_dp \in BOOLEAN
    /\ tutorial_md \in {NoFile} \cup {File(t) : t \in MainTutorials}
    /\ tutorial_bib \in {NoFile, File(<<"@","m","i","s","c","{","x","}">>)}
    /\ contributors_yaml \in {NoFile} \cup {File(d) : d \in DocDirectories}
    /\ article_dp \in BOOLEAN
    /\ article_md \in {NoFile, OldArticle}
    /\ references_bib \in {NoFile, File(<<"o","l","d">>)}
    /\ runs = 0
    \* a file exists only in a directory that exists
    /\ (tutorial_md.exists \/ tutorial_bib.exists \/ article_dp) => tuto_dp
    /\ (article_md.exists \/ references_bib.exists) => article_dp
    /\ InitIdleTutorial /\ InitIdleMeta
    /\ InitIdleTime /\ InitIdleCite /\ InitIdleContent

NextMain == Main

SpecMain == InitMain /\ [][NextMain]_vars

(***************************************************************************)
(* Claims                                                                  *)
(***************************************************************************)
\* the letter get_time is specified to act on: the first of h, H, m, M
\* (in that order) that occurs in the token
UnitLetter(t) ==
    IF \E i \in 1..Len(t) : t[i] = "h" THEN "h"
    ELSE IF \E i \in 1..Len(t) : t[i] = "H" THEN "H"
    ELSE IF \E i \in 1..Len(t) : t[i] = "m" THEN "m"
    ELSE "M"

UnitWord(u) == IF u \in {"h", "H"} THEN <<" ","h","o","u","r","s">> ELSE <<" ","m","i","n","u","t","e","s">>

\* the token with each occurrence of letter u spelled out as word w
Expanded(t, u, w) == Flatten([i \in 1..Len(t) |-> IF t[i] = u THEN w ELSE <<t[i]>>])

HasUnit(t) == \E i \in 1..Len(t) : t[i] \in {"h", "H", "m", "M"}

\* C8: for every time token containing one of h, H, m, M, get_time returns the
\* token with the unit letter (the first of h, H, m, M, in that order, that
\* occurs in it) replaced by " hours" (h, H) or " minutes" (m, M), the rest
\* of the token kept; "1h" gives "1 hours", "30m" gives "30 minutes", and a
\* token with both h and m is rewritten by the h branch only.
C8_GetTimeRewritesUnit ==
    (pc = "returned" /\ HasUnit(time)) =>
        /\ time_ret = Expanded(time, UnitLetter(time), UnitWord(UnitLetter(time)))
        /\ (time = <<"1","h">> => time_ret = <<"1"," ","h","o","u","r","s">>)
        /\ (time = <<"3","0","m">> => time_ret = <<"3","0"," ","m","i","n","u","t","e","s">>)
        /\ (time = <<"1","h","m">> => time_ret = <<"1"," ","h","o","u","r","s","m">>)

\* C8 witness: get_time has returned for a token holding both h and m
C8_Witness == pc = "returned" /\ time = <<"1","h","m">> /\ time_ret = <<"1"," ","h","o","u","r","s","m">>

\* a text holds a citation tag: {% cite <key> %} with a key of one or more
\* lowercase letters, digits, hyphens or underscores
HasCiteTag(s) ==
    \E i \in 1..Len(s) : \E j \in i..Len(s) :
        /\ j - i + 1 > Len(CiteOpen) + Len(TagClose)
        /\ SubSeq(s, i, i + Len(CiteOpen) - 1) = CiteOpen
        /\ SubSeq(s, j - Len(TagClose) + 1, j) = TagClose
        /\ \A k \in (i + Len(CiteOpen))..(j - Len(TagClose)) :
              s[k] \in LowerLetters \cup Digits \cup {"-", "_"}

\* C7: the citation substitution is idempotent: the once-rewritten text holds
\* no citation tag, and rewriting it a second time changes nothing.
C7_CiteIdempotent ==
    /\ (pc = "cite" /\ cite_n >= 1) => ~HasCiteTag(cite_once)
    /\ (pc = "cite" /\ cite_n >= 2) => cite_out = cite_once

\* C7 witness: a text with a citation tag has been rewritten twice
C7_Witness ==
    /\ pc = "cite" /\ cite_n = 2
    /\ cite_in = <<"[","@","{","%"," ","c","i","t","e"," ","a"," ","%","}","]">>
    /\ cite_once = <<"[","@","[","@","a","]","]">>
    /\ cite_out = cite_once

\* the kind of box a line opens (question, details, comment, tip or warning)
BoxKindOf(l) == CHOOSE k \in BoxKinds : Contains(l, IconOpen \o k \o TagClose)

\* a line holds the closing annotation of a box of kind k
ClosesKind(l, k) == Contains(l, <<"{",":"," ",".">> \o k \o <<"}">>) \/ Contains(l, <<"{",":",".">> \o k \o <<"}">>)

IsBoxClosing(l) == \E k \in BoxKinds : ClosesKind(l, k)

\* The closing annotation of the box that line i of the body opens: the first
\* closing annotation after i with as many box openings as closings between
\* the two, when it is of the kind line i opens; 0 when the box is never
\* closed or the body is not properly nested.
BoxEnd(body, i) ==
    LET ends == {j \in (i + 1)..Len(body) :
                    /\ IsBoxClosing(body[j])
                    /\ Cardinality({m \in (i + 1)..(j - 1) : IconBoxMatch(body[m])})
                         = Cardinality({m \in (i + 1)..(j - 1) : IsBoxClosing(body[m])})}
    IN  IF ends = {} THEN 0
        ELSE LET j == CHOOSE e \in ends : \A f \in ends : e <= f
             IN  IF ClosesKind(body[j], BoxKindOf(body[i])) THEN j ELSE 0

\* C1: every line that matches an icon tag of question, details, comment, tip
\* or warning, and every line after it up to and including the closing
\* annotation of the box it opens, is absent from the output, whatever lines
\* (other box openings and closings included) lie in between.
C1_BoxRemoved ==
    pc = "returned" =>
        \A i \in 1..Len(content) :
            (IconBoxMatch(content[i]) /\ BoxEnd(content, i) # 0) =>
                \A j \in i..BoxEnd(content, i) : ~trace[j].emit

BareMarkerLines == {<<">","\n">>, <<">">>}

\* the value of the flag after the iteration over line i
FlagAfter(i) == IF i < Len(trace) THEN trace[i + 1].flag ELSE do_not_add_next_lines

\* C10: a line that holds only a bare blockquote marker is dropped and leaves
\* the suppression flag as it was, whether the flag was false or true.
C10_BareMarkerDropped ==
    \A i \in 1..Len(trace) :
        content[i] \in BareMarkerLines =>
            /\ ~trace[i].emit
            /\ FlagAfter(i) = trace[i].flag

\* C10 witness: a bare marker has been met with the flag false and, inside a
\* box, with the flag true
C10_Witness ==
    /\ pc = "loop" /\ idx = 3
    /\ content[1] \in BareMarkerLines /\ ~trace[1].flag
    /\ IconBoxMatch(content[2])
    /\ content[3] \in BareMarkerLines /\ trace[3].flag /\ do_not_add_next_lines
    /\ l_content = <<>>

\* a line of the form '> ### {% icon hands_on %} ' + T + newline
IsHandsOnLine(l) ==
    /\ StartsWith(l, HandsOnOpening)
    /\ l[Len(l)] = "\n"

\* the T of such a line
TitleOf(l) == SubSeq(l, Len(HandsOnOpening) + 1, Len(l) - 1)

\* a text holds no templating tag: neither {% ... %} nor {{ ... }}
NoTemplatingTag(t) == ~Contains(t, <<"{","%">>) /\ ~Contains(t, <<"{","{">>)

\* C9 as claimed: for every line '> ### {% icon hands_on %} ' + T + newline
\* with no templating tag in T that is reached with the flag false, the
\* output contains '***' + T + '***' + newline.
C9_HandsOnBold_AsClaimed ==
    pc = "returned" =>
        \A i \in 1..Len(content) :
            (/\ IsHandsOnLine(content[i])
             /\ NoTemplatingTag(TitleOf(content[i]))
             /\ ~trace[i].flag)
            => Contains(form_content, Bold \o TitleOf(content[i]) \o Bold \o <<"\n">>)

\* C9 amended: the same for every T that holds neither a templating tag nor
\* the Agenda heading marker '### Agenda' (a line with that marker is dropped
\* and starts the suppression before the hands-on rule is tried).
C9_HandsOnBold ==
    pc = "returned" =>
        \A i \in 1..Len(content) :
            (/\ IsHandsOnLine(content[i])
             /\ NoTemplatingTag(TitleOf(content[i]))
             /\ ~Contains(TitleOf(content[i]), <<"#","#","#"," ","A","g","e","n","d","a">>)
             /\ ~trace[i].flag)
            => Contains(form_content, Bold \o TitleOf(content[i]) \o Bold \o <<"\n">>)

\* C9 witness: the line of the scenario has been rewritten and is in the output
C9_Witness ==
    /\ pc = "returned"
    /\ \E i \in 1..Len(content) :
          /\ content[i] = <<">"," ","#","#","#"," ","{","%"," ","i","c","o","n"," ","h","a","n","d","s","_","o","n"," ","%","}"," ","S","t","e","p"," ","1","\n">>
          /\ ~trace[i].flag /\ trace[i].emit
    /\ Contains(form_content, <<"*","*","*","S","t","e","p"," ","1","*","*","*","\n">>)

\* the display name the directory gives an identifier: its name field when
\* the identifier is listed with one, the identifier itself otherwise
DisplayName(id, dir) ==
    IF \E i \in 1..Len(dir) : dir[i].k = id /\ \E j \in 1..Len(dir[i].v) : dir[i].v[j].k = <<"n","a","m","e">>
    THEN LET i == CHOOSE i \in 1..Len(dir) : dir[i].k = id
             j == CHOOSE j \in 1..Len(dir[i].v) : dir[i].v[j].k = <<"n","a","m","e">>
         IN  dir[i].v[j].v
    ELSE id

\* C5: extract_metadata never fails on the lookup, and the author sequence it
\* builds has the length of the contributors sequence, its i-th element being
\* the display name of the i-th identifier (order and duplicates preserved).
C5_AuthorsResolved ==
    pc \in {"returned", "raised"} =>
        LET ids == Get(yaml_metadata.val, <<"c","o","n","t","r","i","b","u","t","o","r","s">>).val
        IN  /\ pc = "returned"
            /\ HasKey(metadata, <<"a","u","t","h","o","r">>)
            /\ Len(Get(metadata, <<"a","u","t","h","o","r">>).val) = Len(ids)
            /\ \A i \in 1..Len(ids) :
                  Get(metadata, <<"a","u","t","h","o","r">>).val[i] = DisplayName(ids[i], contributors)

\* C5 witness: a contributors list with a duplicate, an identifier listed
\* without a name field and an identifier with one
C5_Witness ==
    /\ pc = "returned"
    /\ Get(yaml_metadata.val, <<"c","o","n","t","r","i","b","u","t","o","r","s">>).val = <<<<"a","b">>, <<"b","e","b","a","t","u","t">>, <<"a","b">>>>
    /\ HasKey(contributors, <<"a","b">>) /\ ~HasKey(Get(contributors, <<"a","b">>), <<"n","a","m","e">>)
    /\ ~HasKey(contributors, <<"z","-","9">>)
    /\ Get(metadata, <<"a","u","t","h","o","r">>).val = <<<<"a","b">>, <<"B","e","r","e","n","i","c","e"," ","B","a","t","u","t">>, <<"a","b">>>>

\* format_tutorial has read the document and split it
HasSplit == pc \in {"metadata", "content", "written"}

\* format_tutorial has called the content filter
HasFiltered == pc \in {"content", "written"}

\* the document starts with a '---' line and has a later '---' line
IsDelimited(doc) ==
    /\ Len(doc) >= 2
    /\ StartsWith(doc[1], <<"-","-","-">>)
    /\ \E j \in 2..Len(doc) : StartsWith(doc[j], <<"-","-","-">>)

\* the closing delimiter: the first '---' line after the first line
ClosingLine(doc) ==
    CHOOSE j \in 2..Len(doc) :
        /\ StartsWith(doc[j], <<"-","-","-">>)
        /\ \A h \in 2..(j - 1) : ~StartsWith(doc[h], <<"-","-","-">>)

\* C4: for a document that starts with a '---' line and has a later closing
\* '---' line, format_tutorial parses as metadata exactly the lines strictly
\* between the two delimiter lines, the last one included, and passes to the
\* content filter exactly the lines after the closing delimiter line.
C4_FrontMatterSplit ==
    (HasSplit /\ IsDelimited(full_content)) =>
        /\ yaml_src = SubSeq(full_content, 2, ClosingLine(full_content) - 1)
        /\ HasFiltered =>
              body_src = SubSeq(full_content, ClosingLine(full_content) + 1,
                                Len(full_content))

\* the keys of the front-matter block of the formatted document, in the
\* order in which the block lists them
WrittenKeys == [i \in 1..Len(article_md.data[2]) |-> article_md.data[2][i].k]

\* the formatted document is a '---' line, a front-matter block, a '---' line
\* and the transformed body
WrittenLayout ==
    /\ article_md.exists
    /\ Len(article_md.data) = 4
    /\ article_md.data[1] = <<"-","-","-","\n">>
    /\ article_md.data[3] = <<"-","-","-","\n">>
    /\ article_md.data[4] =
          FormatTutoContent(body_src, Get(yaml_metadata.val, <<"z","e","n","o","d","o","_","l","i","n","k">>).val,
                            TutoPath)

\* C2 as claimed: the front-matter block that format_tutorial writes lists its
\* four keys in the order title, author, abstract, bibliography, and is
\* followed by a '---' line and the transformed body.
C2_FrontMatterKeys_AsClaimed ==
    pc = "written" =>
        /\ WrittenLayout
        /\ WrittenKeys = <<<<"t","i","t","l","e">>, <<"a","u","t","h","o","r">>, <<"a","b","s","t","r","a","c","t">>, <<"b","i","b","l","i","o","g","r","a","p","h","y">>>>

\* C2 amended: the block lists its four keys in alphabetical order: abstract,
\* author, bibliography, title; it is followed by a '---' line and the
\* transformed body.
C2_FrontMatterKeys ==
    pc = "written" =>
        /\ WrittenLayout
        /\ WrittenKeys = <<<<"a","b","s","t","r","a","c","t">>, <<"a","u","t","h","o","r">>, <<"b","i","b","l","i","o","g","r","a","p","h","y">>, <<"t","i","t","l","e">>>>

\* C2 witness: a document has been written over an older one, with the title
\* of the tutorial as the value of the last key of the block
C2_Witness ==
    /\ pc = "written"
    /\ article_md.exists /\ article_md # OldArticle
    /\ Len(article_md.data[2]) = 4
    /\ article_md.data[2][4] = [k |-> <<"t","i","t","l","e">>, v |-> PyStr(<<"T">>)]
    /\ Len(body_src) > 0

\* the text of tutorial.bib, empty when the file does not exist
TutorialBibText == IF tutorial_bib.exists THEN tutorial_bib.data ELSE <<>>

\* C3: after one or more consecutive runs of add_references, references.bib
\* holds the current content of tutorial.bib (nothing if there is no such
\* file) followed by exactly one copy of the two fixed entries, whatever it
\* held before, so that it does not grow from run to run; and a run never
\* modifies tutorial.bib.
C3_ReferencesRebuilt ==
    /\ [](runs >= 1 =>
            /\ references_bib.exists
            /\ references_bib.data = TutorialBibText \o FixedEntries)
    /\ [][runs' = runs + 1 => tutorial_bib' = tutorial_bib]_vars

\* C3 witness: the second run in a row, over a references.bib that an earlier
\* run wrote for another tutorial.bib
C3_Witness ==
    /\ pc = "add_references" /\ runs = 2
    /\ tutorial_bib = File(<<"@","m","i","s","c","{","x","}">>)
    /\ references_bib = File(<<"@","m","i","s","c","{","x","}">> \o FixedEntries)

\* a required path is missing: the tutorial directory, tutorial.md in it, or
\* CONTRIBUTORS.yaml
MissingPath == ~tuto_dp \/ ~tutorial_md.exists \/ ~contributors_yaml.exists

\* C6: when a required path is missing the run ends in a fatal error before
\* any processing: article.md and references.bib are neither created nor
\* modified, and nothing else is created under the tutorial directory.
C6_NothingCreatedOnMissingPath ==
    [][(runs' = runs + 1 /\ MissingPath) =>
          /\ pc' = "failed"
          /\ article_md' = article_md
          /\ references_bib' = references_bib
          /\ article_dp' = article_dp]_vars

====
